---- MODULE Spec2Model ----
(***************************************************************************)
(* Model of src/utils/helper.ts: the spatial file loader (getSpatialFileType*)
(* readGeojsonFile, readKmlFile, readShpInZipFile, getGeojsonData), the     *)
(* click coordinate normaliser (getMapLibreCoordinate), the label extractor *)
(* (extractLabelValueFromObj) and the properties table renderer             *)
(* (propertiesTableDiv).  The helpers share no state; the unseen UI code    *)
(* calls exactly one of them per behaviour (variable op).                   *)
(***************************************************************************)
EXTENDS Integers, Sequences, FiniteSets, TLC

VARIABLES op, pc, inputFile, spatialFile, awaiting, inner, read, reads, shp,
          promise, e, coordinates, props, result

\* op           the helper the caller invokes in this behaviour
\* pc           position inside that helper: "call", "await", "while", "done"
\* inputFile    the File given to getGeojsonData (NoFile: null/undefined)
\* spatialFile  the local spatialFile of getGeojsonData
\* awaiting     the reader whose promise getGeojsonData awaits
\* inner        the promise that reader returned
\* read         the read of the file the reader started (readAsText / arrayBuffer)
\* reads        how many reads of the file the call has started
\* shp          the promise of shp(resData) in readShpInZipFile
\* promise      the promise getGeojsonData returned
\* e            the event given to getMapLibreCoordinate
\* coordinates  the local coordinates of getMapLibreCoordinate
\* props        the object given to extractLabelValueFromObj / propertiesTableDiv
\* result       what the synchronous helper returned (or that it threw)
vars == <<op, pc, inputFile, spatialFile, awaiting, inner, read, reads, shp,
          promise, e, coordinates, props, result>>

loaderVars == <<inputFile, spatialFile, awaiting, inner, read, reads, shp, promise>>

(***************************************************************************)
(* Strings are sequences of one-character strings, so that slicing,        *)
(* lastIndexOf, endsWith and toLowerCase are computed and not assumed.      *)
(***************************************************************************)
UpperToLower ==
    [c \in {"Z", "I", "P", "K", "M", "L", "G", "E", "O", "J", "S", "N", "T", "X", "A"} |->
        CASE c = "Z" -> "z" [] c = "I" -> "i" [] c = "P" -> "p" [] c = "K" -> "k"
          [] c = "M" -> "m" [] c = "L" -> "l" [] c = "G" -> "g" [] c = "E" -> "e"
          [] c = "O" -> "o" [] c = "J" -> "j" [] c = "S" -> "s" [] c = "N" -> "n"
          [] c = "T" -> "t" [] c = "X" -> "x" [] c = "A" -> "a"]

UpperChar(c) ==
    IF \E u \in DOMAIN UpperToLower : UpperToLower[u] = c
    THEN CHOOSE u \in DOMAIN UpperToLower : UpperToLower[u] = c
    ELSE c

\* String.prototype.toLowerCase
toLowerCase(s) ==
    [i \in 1..Len(s) |-> IF s[i] \in DOMAIN UpperToLower THEN UpperToLower[s[i]] ELSE s[i]]

\* String.prototype.lastIndexOf for a one-character needle: 0-based, -1 when absent
lastIndexOf(s, c) ==
    IF \E i \in 1..Len(s) : s[i] = c
    THEN (CHOOSE i \in 1..Len(s) : s[i] = c /\ \A j \in (i + 1)..Len(s) : s[j] # c) - 1
    ELSE -1

\* String.prototype.slice(start): a negative start counts from the end
slice(s, start) ==
    LET from == IF start < 0
                THEN (IF Len(s) + start < 0 THEN 0 ELSE Len(s) + start)
                ELSE (IF start > Len(s) THEN Len(s) ELSE start)
    IN  SubSeq(s, from + 1, Len(s))

\* String.prototype.endsWith (case-sensitive)
endsWith(s, suffix) ==
    /\ Len(suffix) <= Len(s)
    /\ SubSeq(s, Len(s) - Len(suffix) + 1, Len(s)) = suffix

(***************************************************************************)
(* SpatialFileEnum (src imports it from @/types/spatial-file.enum)         *)
(***************************************************************************)
ZIP == <<".", "z", "i", "p">>
KML == <<".", "k", "m", "l">>
GEOJSON == <<".", "g", "e", "o", "j", "s", "o", "n">>

Null == <<"null">>
NoFile == [name |-> <<>>, content |-> "absent"]

validExtensions == <<ZIP, KML, GEOJSON>>

includes(arr, x) == \E i \in 1..Len(arr) : arr[i] = x

getSpatialFileType_NoLowerCase(file) ==
    IF file = NoFile THEN Null
    ELSE LET fileExtension == slice(file.name, lastIndexOf(file.name, "."))
         IN  IF includes(validExtensions, fileExtension) THEN fileExtension ELSE Null

getSpatialFileType(file) ==
    IF file = NoFile THEN Null
    ELSE LET fileExtension == toLowerCase(slice(file.name, lastIndexOf(file.name, ".")))
         IN  IF includes(validExtensions, fileExtension) THEN fileExtension ELSE Null


(***************************************************************************)
(* Inputs of the loader                                                    *)
(***************************************************************************)
MaxUpper == 2

Positions(ext) == 2..Len(ext)

Capitalise(ext, S) == [i \in 1..Len(ext) |-> IF i \in S THEN UpperChar(ext[i]) ELSE ext[i]]

\* spellings of a recognized extension: up to MaxUpper capitals, and all capitals
CaseVariants(ext) ==
    {Capitalise(ext, S) : S \in {T \in SUBSET Positions(ext) : Cardinality(T) <= MaxUpper}}
        \cup {Capitalise(ext, Positions(ext))}

OtherExtensions ==
    { <<>>, <<".">>, <<".", "t", "x", "t">>, <<"z", "i", "p">>, <<".", "z", "i">>,
      <<".", "k", "m", "l", "x">>, <<".", "j", "s", "o", "n">>,
      <<".", "g", "e", "o", "j", "s", "o", "n", ".">> }

Stems == { <<>>, <<"x">>, <<"a", ".", "z", "i", "p">> }

FileNames ==
    {stem \o ext : stem \in Stems,
                   ext \in CaseVariants(ZIP) \cup CaseVariants(KML)
                             \cup CaseVariants(GEOJSON) \cup OtherExtensions}

\* content is abstracted to whether it conforms to the format its name announces
Contents == {"valid", "malformed"}

Files == [name : FileNames, content : Contents] \cup {NoFile}

(***************************************************************************)
(* Promises                                                                *)
(***************************************************************************)
Pending == [state |-> "pending", value |-> "none"]
Fulfilled(v) == [state |-> "fulfilled", value |-> v]
Rejected(r) == [state |-> "rejected", value |-> r]

NoRead == [kind |-> "none", state |-> "idle"]
NotCalled == [state |-> "not called", value |-> "none"]

\* rejection reasons in the source
PleaseUploadGeojson == "Please upload a valid .geojson file."
PleaseUploadKml == "Please upload a valid .kml file."
PleaseUploadZip == "Please upload a valid .zip file."
InvalidSpatialFiletype == "Error: Invalid spatial filetype"


\* suffix literals the three readers test with endsWith
DotGeojson == <<".", "g", "e", "o", "j", "s", "o", "n">>
DotKml == <<".", "k", "m", "l">>
DotZip == <<".", "z", "i", "p">>

ReadAsText == [kind |-> "readAsText", state |-> "inflight"]
ArrayBuffer == [kind |-> "arrayBuffer", state |-> "inflight"]

(***************************************************************************)
(* The readers: the part of each executor that runs synchronously.         *)
(* started is the number of reads of the file the executor begins.         *)
(***************************************************************************)
readGeojsonFile(file) ==
    IF file # NoFile /\ endsWith(file.name, DotGeojson)
    THEN [inner |-> Pending, read |-> ReadAsText, started |-> 1]
    ELSE [inner |-> Rejected(PleaseUploadGeojson), read |-> NoRead, started |-> 0]

readKmlFile(file) ==
    IF file # NoFile /\ endsWith(file.name, DotKml)
    THEN [inner |-> Pending, read |-> ReadAsText, started |-> 1]
    ELSE [inner |-> Rejected(PleaseUploadKml), read |-> NoRead, started |-> 0]

readShpInZipFile_ReadsTwice(file) ==
    IF file # NoFile /\ endsWith(file.name, DotZip)
    THEN [inner |-> Pending, read |-> ArrayBuffer, started |-> 2]
    ELSE [inner |-> Rejected(PleaseUploadZip), read |-> NoRead, started |-> 0]

readShpInZipFile(file) ==
    IF file # NoFile /\ endsWith(file.name, DotZip)
    THEN [inner |-> Pending, read |-> ArrayBuffer, started |-> 1]
    ELSE [inner |-> Rejected(PleaseUploadZip), read |-> NoRead, started |-> 0]

\* JSON.parse: returns the parsed value or throws a SyntaxError
JSONparse(content) ==
    IF content = "valid" THEN [throws |-> FALSE, value |-> "FeatureCollection"]
    ELSE [throws |-> TRUE, value |-> "SyntaxError"]

\* DOMParser.parseFromString(text, 'application/xml') never throws: text that
\* is not well-formed yields a document holding a parsererror element
parseFromString(content) ==
    IF content = "valid" THEN "kml document" ELSE "parsererror document"

\* toGeoJSON.kml collects the Placemark elements of the document it is given
toGeoJSONkml(doc) ==
    IF doc = "kml document" THEN "FeatureCollection" ELSE "empty FeatureCollection"

\* shp(buffer): a promise rejected when the archive cannot be decoded
shpDecode(content) ==
    IF content = "valid" THEN Fulfilled("FeatureCollection") ELSE Rejected("shp error")

\* reader.onload of readGeojsonFile
onloadGeojson(content) ==
    LET geoJson == JSONparse(content)
    IN  IF geoJson.throws THEN Rejected(geoJson.value) ELSE Fulfilled(geoJson.value)

\* reader.onload of readKmlFile
onloadKml(content) == Fulfilled(toGeoJSONkml(parseFromString(content)))

(***************************************************************************)
(* getGeojsonData: the executor up to its first await                      *)
(***************************************************************************)
Dispatched(reader, r, tag) ==
    [spatialFile |-> tag, awaiting |-> reader, inner |-> r.inner, read |-> r.read,
     started |-> r.started, promise |-> Pending]

NotDispatched(tag, p) ==
    [spatialFile |-> tag, awaiting |-> "none", inner |-> Pending, read |-> NoRead,
     started |-> 0, promise |-> p]

getGeojsonDataExec_NoElse(file) ==
    LET tag == getSpatialFileType(file)
    IN  IF tag = GEOJSON THEN Dispatched("readGeojsonFile", readGeojsonFile(file), tag)
        ELSE IF tag = KML THEN Dispatched("readKmlFile", readKmlFile(file), tag)
        ELSE IF tag = ZIP THEN Dispatched("readShpInZipFile", readShpInZipFile(file), tag)
        ELSE NotDispatched(tag, Pending)

getGeojsonDataExec(file) ==
    LET tag == getSpatialFileType(file)
    IN  IF tag = GEOJSON THEN Dispatched("readGeojsonFile", readGeojsonFile(file), tag)
        ELSE IF tag = KML THEN Dispatched("readKmlFile", readKmlFile(file), tag)
        ELSE IF tag = ZIP THEN Dispatched("readShpInZipFile", readShpInZipFile(file), tag)
        ELSE NotDispatched(tag, Rejected(InvalidSpatialFiletype))


(***************************************************************************)
(* JavaScript values and truthiness                                        *)
(***************************************************************************)
Str(x) == [t |-> "string", v |-> x]
Num(x) == [t |-> "number", v |-> x]
Undefined == [t |-> "undefined", v |-> "undefined"]

Truthy(val) ==
    CASE val.t = "string" -> val.v # ""
      [] val.t = "number" -> val.v \notin {"0", "NaN"}
      [] val.t = "boolean" -> val.v = "true"
      [] OTHER -> FALSE

Min(S) == CHOOSE x \in S : \A y \in S : x <= y

\* an object: its own entries in key order, and the enumerable entries of its prototype
NoProps == [own |-> <<>>, proto |-> <<>>]

\* key in obj
in(key, obj) ==
    \/ \E i \in 1..Len(obj.own) : obj.own[i].key = key
    \/ \E i \in 1..Len(obj.proto) : obj.proto[i].key = key

\* obj[key]
get(obj, key) ==
    IF \E i \in 1..Len(obj.own) : obj.own[i].key = key
    THEN obj.own[CHOOSE i \in 1..Len(obj.own) : obj.own[i].key = key].value
    ELSE IF \E i \in 1..Len(obj.proto) : obj.proto[i].key = key
    THEN obj.proto[CHOOSE i \in 1..Len(obj.proto) : obj.proto[i].key = key].value
    ELSE Undefined

\* Object.keys(obj)
ObjectKeys(obj) == [i \in 1..Len(obj.own) |-> obj.own[i].key]

\* for (const key in obj): own keys, then the prototype's keys that are not shadowed
forIn(obj) ==
    ObjectKeys(obj) \o
    SelectSeq([i \in 1..Len(obj.proto) |-> obj.proto[i].key],
              LAMBDA k : ~\E i \in 1..Len(obj.own) : obj.own[i].key = k)

\* obj.hasOwnProperty(key)
hasOwnProperty(obj, key) == \E i \in 1..Len(obj.own) : obj.own[i].key = key

(***************************************************************************)
(* extractLabelValueFromObj                                                *)
(***************************************************************************)
preferredKeys == <<"name", "nama", "nameobj", "id", "fid", "objectid", "description">>

\* Object.keys(obj).find((key) => obj[key])
findFirstNonFalsyKey(obj) ==
    LET keys == ObjectKeys(obj)
        hits == {i \in 1..Len(keys) : Truthy(get(obj, keys[i]))}
    IN  IF hits = {} THEN Undefined ELSE Str(keys[Min(hits)])

extractLabelValueFromObj(obj) ==
    LET hits == {i \in 1..Len(preferredKeys) :
                    in(preferredKeys[i], obj) /\ Truthy(get(obj, preferredKeys[i]))}
    IN  IF hits # {}
        THEN get(obj, preferredKeys[Min(hits)])
        ELSE LET firstNonFalsyKey == findFirstNonFalsyKey(obj)
             IN  IF Truthy(firstNonFalsyKey) THEN get(obj, firstNonFalsyKey.v) ELSE Undefined

(***************************************************************************)
(* propertiesTableDiv: the table is the sequence of its rows               *)
(***************************************************************************)
Row(key, val, shaded) == [key |-> key, value |-> val, shaded |-> shaded]

RECURSIVE tableRows_ShadeByKeyIndex(_, _, _, _)
tableRows_ShadeByKeyIndex(obj, keys, i, listRow) ==
    IF i > Len(keys) THEN listRow
    ELSE LET key == keys[i]
         IN  IF key = "WKT_GEOMETRY" \/ key = "ogc_fid"
             THEN tableRows_ShadeByKeyIndex(obj, keys, i + 1, listRow)
             ELSE IF hasOwnProperty(obj, key)
             THEN tableRows_ShadeByKeyIndex(obj, keys, i + 1,
                      Append(listRow, Row(key, get(obj, key), (i - 1) % 2 = 0)))
             ELSE tableRows_ShadeByKeyIndex(obj, keys, i + 1, listRow)

RECURSIVE tableRows(_, _, _, _)
tableRows(obj, keys, i, listRow) ==
    IF i > Len(keys) THEN listRow
    ELSE LET key == keys[i]
         IN  IF key = "WKT_GEOMETRY" \/ key = "ogc_fid"
             THEN tableRows(obj, keys, i + 1, listRow)
             ELSE IF hasOwnProperty(obj, key)
             THEN tableRows(obj, keys, i + 1,
                      Append(listRow, Row(key, get(obj, key), Len(listRow) % 2 = 0)))
             ELSE tableRows(obj, keys, i + 1, listRow)

propertiesTableDiv(obj) == [t |-> "table", rows |-> tableRows(obj, forIn(obj), 1, <<>>)]


(***************************************************************************)
(* getMapLibreCoordinate                                                   *)
(***************************************************************************)
Abs(x) == IF x < 0 THEN 0 - x ELSE x

NoEvent == [hasFeatures |-> FALSE, features |-> <<>>, lngLat |-> [lng |-> 0, lat |-> 0]]

\* the condition of the while loop
whileCond(ev, coords) == Abs(ev.lngLat.lng - coords[1]) > 180

whileBody_HalfTurn(ev, coords) ==
    [coords EXCEPT ![1] = @ + (IF ev.lngLat.lng > coords[1] THEN 180 ELSE 0 - 180)]

\* the body of the while loop
whileBody(ev, coords) ==
    [coords EXCEPT ![1] = @ + (IF ev.lngLat.lng > coords[1] THEN 360 ELSE 0 - 360)]

(***************************************************************************)
(* Inputs of the synchronous helpers                                       *)
(***************************************************************************)
LngLimit == 540
LngGrid == 45
MaxProps == 3

\* longitudes in whole degrees: the grid points and their neighbours, so that
\* differences of exactly 180, just below and just above all occur
Lngs == {d \in (0 - LngLimit)..LngLimit : d % LngGrid \in {0, 1, LngGrid - 1}}
            \cup {0 - 170, 170}
Lats == {0 - 45, 60}

Feature(lng, lat) == [geometry |-> [coordinates |-> <<lng, lat>>], properties |-> "first"]
OtherFeature == [geometry |-> [coordinates |-> <<0, 0>>], properties |-> "second"]

Events ==
    {[hasFeatures |-> FALSE, features |-> <<>>, lngLat |-> [lng |-> c, lat |-> 10]] :
        c \in {0 - 170, 170}}
    \cup {[hasFeatures |-> TRUE, features |-> <<>>, lngLat |-> [lng |-> c, lat |-> 10]] :
        c \in {0 - 170, 170}}
    \cup {[hasFeatures |-> TRUE, features |-> <<Feature(f, lat)>> \o rest,
           lngLat |-> [lng |-> c, lat |-> 10]] :
        c \in Lngs, f \in Lngs, lat \in Lats, rest \in {<<>>, <<OtherFeature>>}}

LabelKeys == {"name", "id", "description", "", "foo"}
LabelValues == {Str(""), Num("0"), Str("A"), Str("Z")}
TableKeys == {"WKT_GEOMETRY", "ogc_fid", "a", "b"}
TableValues == {Str("A"), Num("0")}
Protos == {<<>>, <<[key |-> "inherited", value |-> Str("P")]>>}

Entries(K, V) == [key : K, value : V]

\* objects with at most MaxProps own properties, keys distinct
Objects(K, V) ==
    UNION {{[own |-> o, proto |-> p] :
               o \in {q \in [1..n -> Entries(K, V)] :
                         \A i, j \in 1..n : q[i].key = q[j].key => i = j},
               p \in Protos} : n \in 0..MaxProps}

Ops == {"getGeojsonData", "getMapLibreCoordinate", "extractLabelValueFromObj",
        "propertiesTableDiv"}

NoResult == [t |-> "none"]

(***************************************************************************)
(* The state machine                                                       *)
(***************************************************************************)
Init ==
    /\ op \in Ops
    /\ pc = "call"
    /\ spatialFile = Null
    /\ awaiting = "none"
    /\ inner = Pending
    /\ read = NoRead
    /\ reads = 0
    /\ shp = NotCalled
    /\ promise = Pending
    /\ coordinates = <<>>
    /\ result = NoResult
    /\ inputFile \in IF op = "getGeojsonData" THEN Files ELSE {NoFile}
    /\ e \in IF op = "getMapLibreCoordinate" THEN Events ELSE {NoEvent}
    /\ props \in CASE op = "extractLabelValueFromObj" -> Objects(LabelKeys, LabelValues)
                   [] op = "propertiesTableDiv" -> Objects(TableKeys, TableValues)
                   [] OTHER -> {NoProps}

\* getGeojsonData(inputFile), up to its first await or its synchronous rejection
GetGeojsonData ==
    /\ op = "getGeojsonData" /\ pc = "call"
    /\ LET x == getGeojsonDataExec(inputFile)
       IN  /\ spatialFile' = x.spatialFile
           /\ awaiting' = x.awaiting
           /\ inner' = x.inner
           /\ read' = x.read
           /\ reads' = reads + x.started
           /\ promise' = x.promise
           /\ pc' = IF x.awaiting = "none" THEN "done" ELSE "await"
    /\ UNCHANGED <<op, inputFile, shp, e, coordinates, props, result>>

\* the FileReader finishes reading and fires load: reader.onload runs
ReaderOnload ==
    /\ read = ReadAsText
    /\ read' = [read EXCEPT !.state = "loaded"]
    /\ inner' = IF awaiting = "readGeojsonFile" THEN onloadGeojson(inputFile.content)
                ELSE onloadKml(inputFile.content)
    /\ UNCHANGED <<op, pc, inputFile, spatialFile, awaiting, reads, shp, promise, e,
                   coordinates, props, result>>

\* the FileReader fails and fires error: the readers install no onerror handler
ReaderError ==
    /\ read = ReadAsText
    /\ read' = [read EXCEPT !.state = "failed"]
    /\ UNCHANGED <<op, pc, inputFile, spatialFile, awaiting, inner, reads, shp, promise, e,
                   coordinates, props, result>>

\* the promise of inputFile.arrayBuffer() is fulfilled
ArrayBufferFulfilled ==
    /\ read = ArrayBuffer
    /\ read' = [read EXCEPT !.state = "loaded"]
    /\ UNCHANGED <<op, pc, inputFile, spatialFile, awaiting, inner, reads, shp, promise, e,
                   coordinates, props, result>>

\* the promise of inputFile.arrayBuffer() is rejected
ArrayBufferRejected ==
    /\ read = ArrayBuffer
    /\ read' = [read EXCEPT !.state = "failed"]
    /\ UNCHANGED <<op, pc, inputFile, spatialFile, awaiting, inner, reads, shp, promise, e,
                   coordinates, props, result>>

\* readShpInZipFile resumes after await inputFile.arrayBuffer(): it calls
\* shp(resData), or its catch rejects with the read error
ResumeAfterArrayBuffer ==
    /\ read.kind = "arrayBuffer" /\ read.state \in {"loaded", "failed"}
    /\ shp = NotCalled /\ inner = Pending
    /\ IF read.state = "loaded"
       THEN shp' = Pending /\ UNCHANGED inner
       ELSE inner' = Rejected("read error") /\ UNCHANGED shp
    /\ UNCHANGED <<op, pc, inputFile, spatialFile, awaiting, read, reads, promise, e,
                   coordinates, props, result>>

\* the promise of shp(resData) settles
ShpSettled ==
    /\ shp = Pending
    /\ shp' = shpDecode(inputFile.content)
    /\ UNCHANGED <<op, pc, inputFile, spatialFile, awaiting, inner, read, reads, promise, e,
                   coordinates, props, result>>

\* readShpInZipFile resumes after await shp(resData): resolve(geoJson), or catch and reject
ResumeAfterShp ==
    /\ shp.state \in {"fulfilled", "rejected"} /\ inner = Pending
    /\ inner' = shp
    /\ UNCHANGED <<op, pc, inputFile, spatialFile, awaiting, read, reads, shp, promise, e,
                   coordinates, props, result>>

\* getGeojsonData resumes after its await: resolve(data), or catch and reject(error)
AwaitResume ==
    /\ pc = "await"
    /\ inner.state # "pending"
    /\ promise' = inner
    /\ pc' = "done"
    /\ UNCHANGED <<op, inputFile, spatialFile, awaiting, inner, read, reads, shp, e,
                   coordinates, props, result>>

\* getMapLibreCoordinate(e), up to the while loop
GetMapLibreCoordinate ==
    /\ op = "getMapLibreCoordinate" /\ pc = "call"
    /\ IF ~e.hasFeatures
       THEN /\ result' = [t |-> "undefined"]
            /\ pc' = "done"
            /\ UNCHANGED coordinates
       ELSE IF Len(e.features) = 0
       THEN \* e.features[0] is undefined: reading .geometry of it throws
            /\ result' = [t |-> "throw", error |-> "TypeError"]
            /\ pc' = "done"
            /\ UNCHANGED coordinates
       ELSE /\ coordinates' = e.features[1].geometry.coordinates
            /\ pc' = "while"
            /\ UNCHANGED result
    /\ UNCHANGED <<op, e, props>> /\ UNCHANGED loaderVars

WhileStep ==
    /\ pc = "while"
    /\ whileCond(e, coordinates)
    /\ coordinates' = whileBody(e, coordinates)
    /\ UNCHANGED <<op, pc, e, props, result>> /\ UNCHANGED loaderVars

WhileExit ==
    /\ pc = "while"
    /\ ~whileCond(e, coordinates)
    /\ result' = [t |-> "object", coordinates |-> coordinates,
                  properties |-> e.features[1].properties]
    /\ pc' = "done"
    /\ UNCHANGED <<op, e, coordinates, props>> /\ UNCHANGED loaderVars

ExtractLabelValueFromObj ==
    /\ op = "extractLabelValueFromObj" /\ pc = "call"
    /\ result' = [t |-> "value", value |-> extractLabelValueFromObj(props)]
    /\ pc' = "done"
    /\ UNCHANGED <<op, e, coordinates, props>> /\ UNCHANGED loaderVars

PropertiesTableDiv ==
    /\ op = "propertiesTableDiv" /\ pc = "call"
    /\ result' = propertiesTableDiv(props)
    /\ pc' = "done"
    /\ UNCHANGED <<op, e, coordinates, props>> /\ UNCHANGED loaderVars

Next ==
    \/ GetGeojsonData
    \/ ReaderOnload
    \/ ReaderError
    \/ ArrayBufferFulfilled
    \/ ArrayBufferRejected
    \/ ResumeAfterArrayBuffer
    \/ ShpSettled
    \/ ResumeAfterShp
    \/ AwaitResume
    \/ GetMapLibreCoordinate
    \/ WhileStep
    \/ WhileExit
    \/ ExtractLabelValueFromObj
    \/ PropertiesTableDiv

Spec == Init /\ [][Next]_vars

\* the event loop runs every continuation that is ready, and every read ends
FairSpec == Spec /\ WF_vars(Next)


(***************************************************************************)
(* Properties                                                              *)
(***************************************************************************)
Loading == op = "getGeojsonData"

HasDot(name) == \E i \in 1..Len(name) : name[i] = "."

\* the final extension of a name that has a dot: from its last dot to its end
FinalExtension(name) ==
    LET k == CHOOSE i \in 1..Len(name) : name[i] = "." /\ \A j \in (i + 1)..Len(name) : name[j] # "."
    IN  SubSeq(name, k, Len(name))

\* the tag the specification gives a file: its final extension folded to
\* lower case when that is a recognized one, none otherwise
ExpectedTag(file) ==
    IF file = NoFile THEN Null
    ELSE IF ~HasDot(file.name) THEN Null
    ELSE IF toLowerCase(FinalExtension(file.name)) \in {ZIP, KML, GEOJSON}
    THEN toLowerCase(FinalExtension(file.name))
    ELSE Null

ReaderOf(tag) ==
    CASE tag = GEOJSON -> "readGeojsonFile"
      [] tag = KML -> "readKmlFile"
      [] tag = ZIP -> "readShpInZipFile"
      [] OTHER -> "none"

FormatErrors == {PleaseUploadGeojson, PleaseUploadKml, PleaseUploadZip, InvalidSpatialFiletype}
ParseFailures == {"SyntaxError", "shp error"}

IsFormatError(p) == p.state = "rejected" /\ p.value \in FormatErrors

\* C1: once getSpatialFileType has run on the file, its result is the lower-case
\* tag of the file's final extension when that extension is .zip, .kml or
\* .geojson in any letter case, and null for every other name and for no file.
C1_DetectFormat ==
    (Loading /\ pc # "call") => spatialFile = ExpectedTag(inputFile)

C1_Witness ==
    /\ Loading /\ pc # "call" /\ inputFile # NoFile
    /\ inputFile.name # toLowerCase(inputFile.name)
    /\ spatialFile = GEOJSON

\* C2: for every file whose final extension is a recognized one in any letter
\* case, getGeojsonData dispatches to the matching reader, the reader starts its
\* read, and neither the reader nor the call is rejected with a format error.
C2_RecognizedIsRead ==
    (Loading /\ pc # "call" /\ ExpectedTag(inputFile) # Null) =>
        /\ awaiting = ReaderOf(ExpectedTag(inputFile))
        /\ reads = 1 /\ read.kind # "none"
        /\ ~IsFormatError(inner)
        /\ ~IsFormatError(promise)

\* C3: for every file whose extension is not a recognized one, and for no file,
\* the call is rejected with the format error and no read is ever started.
C3_UnrecognizedRejected ==
    (Loading /\ pc # "call" /\ ExpectedTag(inputFile) = Null) =>
        /\ promise = Rejected(InvalidSpatialFiletype)
        /\ reads = 0 /\ read = NoRead /\ awaiting = "none"

C3_Witness ==
    /\ Loading /\ pc = "done"
    /\ inputFile # NoFile /\ inputFile.name = <<"x", ".", "t", "x", "t">>
    /\ promise = Rejected(InvalidSpatialFiletype)

\* C4: once the read of the file has completed, with the content or with a read
\* error, the promise getGeojsonData returned is eventually settled.
C4_EventuallySettles ==
    (Loading /\ read.state \in {"loaded", "failed"}) ~> (promise.state # "pending")

\* C5: for a file with a recognized extension whose content does not conform to
\* its format, the call never resolves with a geometry document, and when it
\* is rejected it carries the underlying parse failure.
C5_MalformedRejected ==
    (Loading /\ ExpectedTag(inputFile) # Null /\ inputFile.content = "malformed") =>
        /\ promise.state # "fulfilled"
        /\ (promise.state = "rejected" /\ read.state # "failed") =>
               promise.value \in ParseFailures

\* C6: in one call to getGeojsonData at most one read of the file is started,
\* whatever the extension and the outcome.
C6_AtMostOneRead == Loading => reads <= 1

C6_Witness ==
    /\ Loading /\ pc = "done" /\ reads = 1
    /\ read.kind = "arrayBuffer" /\ promise.state = "fulfilled"

ClickCase == op = "getMapLibreCoordinate"

\* C7: the adjustment loop of getMapLibreCoordinate terminates, and the
\* longitude returned differs from the first feature's longitude by a multiple
\* of 360 and from the click longitude by at most 180; the latitude is unchanged.
C7_Normalised ==
    /\ [](ClickCase /\ pc = "done" /\ result.t = "object" =>
            /\ (result.coordinates[1] - e.features[1].geometry.coordinates[1]) % 360 = 0
            /\ Abs(e.lngLat.lng - result.coordinates[1]) <= 180
            /\ result.coordinates[2] = e.features[1].geometry.coordinates[2])
    /\ ((ClickCase /\ pc = "while") ~> (pc = "done" /\ result.t = "object"))

C7_Witness ==
    /\ ClickCase /\ pc = "done" /\ result.t = "object"
    /\ e.lngLat.lng = 170 /\ e.features[1].geometry.coordinates[1] = 0 - 170
    /\ result.coordinates[1] = 190

\* C8: when the event carries no hit feature, the list being absent or empty,
\* getMapLibreCoordinate returns undefined and does not fail.
C8_NoFeatureIsUndefined ==
    (ClickCase /\ pc = "done" /\ (~e.hasFeatures \/ Len(e.features) = 0)) =>
        result.t = "undefined"

\* the label the specification gives a mapping
ExpectedLabel(obj) ==
    LET preferred == {i \in 1..Len(preferredKeys) :
                         in(preferredKeys[i], obj) /\ Truthy(get(obj, preferredKeys[i]))}
        truthy == {i \in 1..Len(obj.own) : Truthy(obj.own[i].value)}
    IN  IF preferred # {} THEN get(obj, preferredKeys[Min(preferred)])
        ELSE IF truthy # {} THEN obj.own[Min(truthy)].value
        ELSE Undefined

\* C9: extractLabelValueFromObj returns the value of the first preferred key
\* that is present with a truthy value, else the first truthy value in key
\* order, else undefined.
C9_Label ==
    (op = "extractLabelValueFromObj" /\ pc = "done") => result.value = ExpectedLabel(props)

Reserved(key) == key \in {"WKT_GEOMETRY", "ogc_fid"}

ExpectedRows(obj) ==
    LET kept == SelectSeq(obj.own, LAMBDA x : ~Reserved(x.key))
    IN  [i \in 1..Len(kept) |-> Row(kept[i].key, kept[i].value, i % 2 = 1)]

\* C10: the table has exactly one row per own property whose key is not
\* reserved, in key order, and the rows alternate shading by their position in
\* the table, the first one shaded.
C10_Rows ==
    (op = "propertiesTableDiv" /\ pc = "done") =>
        /\ result.rows = ExpectedRows(props)
        /\ \A i \in 1..(Len(result.rows) - 1) :
               result.rows[i].shaded # result.rows[i + 1].shaded

C10_Witness ==
    /\ op = "propertiesTableDiv" /\ pc = "done"
    /\ Len(props.own) = 3 /\ Reserved(props.own[2].key)
    /\ Len(result.rows) = 2
    /\ result.rows[1].shaded /\ ~result.rows[2].shaded

====
